---- MODULE Spec2Model ----
(***************************************************************************)
(* Model of the notes application of src/src/App.tsx: StorageService,      *)
(* NotesModel, NotesController and the two view handlers that feed them    *)
(* (NoteEditorModal.handleSubmit, App.handleSaveNote).                     *)
(*                                                                         *)
(* Representation.                                                         *)
(*  - A JavaScript string is a sequence of one-character strings, so that  *)
(*    trim and localeCompare are computed and not assumed.  Ids and colors *)
(*    are only ever compared for equality and stay TLA+ strings.           *)
(*  - A Note is a record with the fields of the Note interface plus "ref", *)
(*    the identity of the JavaScript object holding it: addNote and        *)
(*    updateNote build a new object, togglePin writes into the old one.    *)
(*  - null is the empty sequence and a returned value v is <<v>>.          *)
(*  - Time is counted in abstract units; Date.now() never goes backwards   *)
(*    and may advance between any two reads.                               *)
(*                                                                         *)
(* Specifications.                                                         *)
(*  - Spec: the controller as App wires it (one listener that only makes   *)
(*    the component render again), the editor's submit path and the        *)
(*    storage; the controller's methods are also called directly, with any *)
(*    argument their types admit.                                          *)
(*  - SpecNotify: the controller with listeners that may unsubscribe       *)
(*    during notify().                                                     *)
(*  - SpecModel: the mutating methods of NotesModel, called directly.      *)
(*  - SpecSort: sortNotes on every small array.                            *)
(***************************************************************************)
EXTENDS Integers, Sequences, FiniteSets, TLC

VARIABLES
    notes,      \* NotesModel.notes
    nextRef,    \* identity given to the next Note object built
    clock,      \* the last value Date.now() returned
    isClient,   \* typeof window !== 'undefined'
    storage,    \* sessionStorage item 'notes_data': <<>> (absent) or <<text>>
    entries,    \* NotesController.listeners: the Set's entry list, in insertion order
    pc,         \* "idle", or "notify" while NotesController.notify runs
    idx,        \* notify: position in entries of the next listener to invoke
    calls,      \* per listener: invocations during the latest notify
    view,       \* per listener: what getAllNotes() returned to it in the latest notify
    op,         \* the latest controller operation: name, arguments, result, notes before
    saved,      \* outcome of the latest operation's saveToStorage
    nops,       \* controller operations started so far
    snap,       \* the array a caller got from getAllNotes(), as it is now
    given,      \* null, or what that array held when it was returned
    sortIn,     \* sortNotes: the notes argument
    sortBy,     \* sortNotes: the sortBy argument ("none": not called yet)
    sortOut,    \* sortNotes: the returned array
    asked,      \* the query made of the collection: its name, arguments, the notes then
    answer      \* what that method returned

vars == <<notes, nextRef, clock, isClient, storage, entries, pc, idx, calls, view,
          op, saved, nops, snap, given, sortIn, sortBy, sortOut, asked, answer>>

appVars == <<notes, nextRef, clock, isClient, storage, entries, pc, idx, calls, view,
             op, saved, nops, snap, given>>

callerVars == <<snap, given>>

sortVars == <<sortIn, sortBy, sortOut>>

queryVars == <<asked, answer>>

----------------------------------------------------------------------------
(* Bounds of the model *)

\* controller operations per behaviour
MaxOps == 2

\* units Date.now() may advance after the module was loaded
MaxTicks == 1

\* length of the array given to sortNotes
MaxSortLen == 3

\* notes in a collection the query methods are called on
MaxNotes == 2

----------------------------------------------------------------------------
(* JavaScript values *)

Null == <<>>

Some(v) == <<v>>

\* { ...a, ...b }: the properties of b laid over those of a
Spread(a, b) ==
    [f \in DOMAIN a \cup DOMAIN b |-> IF f \in DOMAIN b THEN b[f] ELSE a[f]]

\* Array.prototype.filter with the predicate n => n.id !== id
RECURSIVE filterNotId(_, _)
filterNotId(arr, id) ==
    IF arr = <<>> THEN <<>>
    ELSE IF Head(arr).id # id
         THEN <<Head(arr)>> \o filterNotId(Tail(arr), id)
         ELSE filterNotId(Tail(arr), id)

\* Array.prototype.findIndex with n => n.id === id, 1-based; 0 stands for -1
findIndex(arr, id) ==
    IF \E i \in 1..Len(arr) : arr[i].id = id
    THEN CHOOSE i \in 1..Len(arr) :
            /\ arr[i].id = id
            /\ \A j \in 1..(i - 1) : arr[j].id # id
    ELSE 0

----------------------------------------------------------------------------
(* Strings *)

IsWhiteSpace(c) == c = " "

RECURSIVE trimStart(_)
trimStart(s) ==
    IF s # <<>> /\ IsWhiteSpace(Head(s)) THEN trimStart(Tail(s)) ELSE s

RECURSIVE trimEnd(_)
trimEnd(s) ==
    IF s # <<>> /\ IsWhiteSpace(s[Len(s)])
    THEN trimEnd(SubSeq(s, 1, Len(s) - 1))
    ELSE s

\* String.prototype.trim
trim(s) == trimEnd(trimStart(s))

\* Collation of the characters the model uses: the primary weight orders the
\* letters without regard to case (white space first), the tertiary weight
\* puts the small letter before the capital.
PrimaryWeight(c) ==
    CASE c = " " -> 0
      [] c \in {"a", "A"} -> 1
      [] c \in {"b", "B"} -> 2
      [] OTHER -> 3

TertiaryWeight(c) == IF c \in {"A", "B"} THEN 1 ELSE 0

\* lexicographic comparison of two sequences of weights: -1, 0 or 1
RECURSIVE compareWeights(_, _)
compareWeights(a, b) ==
    IF a = <<>> /\ b = <<>> THEN 0
    ELSE IF a = <<>> THEN -1
    ELSE IF b = <<>> THEN 1
    ELSE IF Head(a) < Head(b) THEN -1
    ELSE IF Head(a) > Head(b) THEN 1
    ELSE compareWeights(Tail(a), Tail(b))

\* String.prototype.localeCompare
localeCompare(a, b) ==
    LET p == compareWeights([i \in DOMAIN a |-> PrimaryWeight(a[i])],
                            [i \in DOMAIN b |-> PrimaryWeight(b[i])])
    IN  IF p # 0 THEN p
        ELSE compareWeights([i \in DOMAIN a |-> TertiaryWeight(a[i])],
                            [i \in DOMAIN b |-> TertiaryWeight(b[i])])

\* the letters, small and capital, at the same positions
Letters ==
    <<"a", "b", "c", "d", "e", "f", "g", "h", "i", "j", "k", "l", "m",
      "n", "o", "p", "q", "r", "s", "t", "u", "v", "w", "x", "y", "z">>

Capitals ==
    <<"A", "B", "C", "D", "E", "F", "G", "H", "I", "J", "K", "L", "M",
      "N", "O", "P", "Q", "R", "S", "T", "U", "V", "W", "X", "Y", "Z">>

\* the position of c in alphabet, 0 when it is not in it
letterIndex(alphabet, c) ==
    IF \E i \in DOMAIN alphabet : alphabet[i] = c
    THEN CHOOSE i \in DOMAIN alphabet : alphabet[i] = c
    ELSE 0

\* the UTF-16 code unit of a character: space, capitals, small letters
CodeUnit(c) ==
    IF letterIndex(Capitals, c) # 0 THEN 64 + letterIndex(Capitals, c)
    ELSE IF letterIndex(Letters, c) # 0 THEN 96 + letterIndex(Letters, c)
    ELSE 32

\* String.prototype.toLowerCase
toLowerCase(s) ==
    [i \in DOMAIN s |->
        IF letterIndex(Capitals, s[i]) # 0
        THEN Letters[letterIndex(Capitals, s[i])]
        ELSE s[i]]

\* String.prototype.includes
includes(s, sub) ==
    \E k \in 0..(Len(s) - Len(sub)) :
        \A i \in DOMAIN sub : s[k + i] = sub[i]

\* the comparison Array.prototype.sort makes without a comparator: by code
\* units
defaultCompare(a, b) ==
    compareWeights([i \in DOMAIN a |-> CodeUnit(a[i])],
                   [i \in DOMAIN b |-> CodeUnit(b[i])])

\* one step of the stable sort without a comparator
RECURSIVE insertDefault(_, _)
insertDefault(arr, x) ==
    IF arr = <<>> THEN <<x>>
    ELSE IF defaultCompare(arr[Len(arr)], x) > 0
         THEN insertDefault(SubSeq(arr, 1, Len(arr) - 1), x) \o <<arr[Len(arr)]>>
         ELSE arr \o <<x>>

\* Array.prototype.sort() of an array of strings
RECURSIVE sortDefault(_)
sortDefault(arr) ==
    IF arr = <<>> THEN <<>>
    ELSE insertDefault(sortDefault(SubSeq(arr, 1, Len(arr) - 1)), arr[Len(arr)])

----------------------------------------------------------------------------
(* NotesModel.sortNotes *)

\* the comparator sortFunction hands to Array.prototype.sort
sortCompare(sortOption, a, b) ==
    CASE sortOption = "date-desc" -> b.updatedAt - a.updatedAt
      [] sortOption = "date-asc" -> a.updatedAt - b.updatedAt
      [] sortOption = "title-asc" -> localeCompare(a.title, b.title)
      [] sortOption = "title-desc" -> localeCompare(b.title, a.title)
      [] OTHER -> 0

\* one step of a sort that puts x before the elements it compares equal to
RECURSIVE insertStable_beforeEqual(_, _, _)
insertStable_beforeEqual(sortOption, arr, x) ==
    IF arr = <<>> THEN <<x>>
    ELSE IF sortCompare(sortOption, arr[Len(arr)], x) >= 0
         THEN insertStable_beforeEqual(sortOption, SubSeq(arr, 1, Len(arr) - 1), x)
                  \o <<arr[Len(arr)]>>
         ELSE arr \o <<x>>

\* one step of a stable sort: x goes behind every element that does not
\* compare greater than it
RECURSIVE insertStable(_, _, _)
insertStable(sortOption, arr, x) ==
    IF arr = <<>> THEN <<x>>
    ELSE IF sortCompare(sortOption, arr[Len(arr)], x) > 0
         THEN insertStable(sortOption, SubSeq(arr, 1, Len(arr) - 1), x)
                  \o <<arr[Len(arr)]>>
         ELSE arr \o <<x>>

\* Array.prototype.sort (stable) under sortCompare
RECURSIVE arraySort(_, _)
arraySort(sortOption, arr) ==
    IF arr = <<>> THEN <<>>
    ELSE insertStable(sortOption,
                      arraySort(sortOption, SubSeq(arr, 1, Len(arr) - 1)),
                      arr[Len(arr)])

\* the inner sortFunction: the four criteria sort, anything else returns arr
sortFunction(sortOption, arr) ==
    IF sortOption \in {"date-desc", "date-asc", "title-asc", "title-desc"}
    THEN arraySort(sortOption, arr)
    ELSE arr

IsPinnedNote(n) == n.isPinned

IsUnpinnedNote(n) == ~n.isPinned

\* sortNotes without the split into pinned and unpinned
sortNotes_unsplit(arr, sortOption) == sortFunction(sortOption, arr)

sortNotes(arr, sortOption) ==
    LET pinned == SelectSeq(arr, IsPinnedNote)
        unpinned == SelectSeq(arr, IsUnpinnedNote)
    IN  sortFunction(sortOption, pinned) \o sortFunction(sortOption, unpinned)

----------------------------------------------------------------------------
(* Constants of the program *)

\* 86400000 ms, the age of the first default note, is the model's unit of time
DayMs == 1

\* Date.now() when the module is loaded and DEFAULT_NOTES is built
LoadTime == 2

\* Texts are abbreviated: a title or content to its first letter, a tag to
\* its first two letters.
DEFAULT_NOTES ==
    << [ref |-> 1, id |-> "note_1", title |-> <<"B">>, content |-> <<"E">>,
        color |-> "yellow", isPinned |-> TRUE,
        tags |-> << <<"t", "u">>, <<"i", "m">> >>,
        createdAt |-> LoadTime - DayMs, updatedAt |-> LoadTime - DayMs],
       [ref |-> 2, id |-> "note_2", title |-> <<"L">>, content |-> <<"i">>,
        color |-> "green", isPinned |-> FALSE,
        tags |-> << <<"t", "r">>, <<"t", "a">> >>,
        createdAt |-> LoadTime - 2 * DayMs, updatedAt |-> LoadTime - 2 * DayMs] >>

\* the fields of the Note interface, in the order of its declaration
NoteFields ==
    <<"id", "title", "content", "color", "isPinned", "tags", "createdAt", "updatedAt">>

\* a Note without the identity of the object that holds it
Fields(n) == [f \in {NoteFields[i] : i \in DOMAIN NoteFields} |-> n[f]]

FieldsOfAll(arr) == [i \in DOMAIN arr |-> Fields(arr[i])]

----------------------------------------------------------------------------
(* Inputs *)

\* the values Date.now() can return when the last one was c
DateNow(c) == c..(LoadTime + MaxTicks)

\* Math.random().toString(36).substr(2, 9)
RandomSuffixes == {"k3x", "q9f"}

\* what callers pass to addNote: Omit<Note, 'id' | 'createdAt' | 'updatedAt'>
Drafts ==
    [title : {<<" ">>, <<"a">>}, content : {<<>>}, color : {"blue"},
     isPinned : BOOLEAN, tags : {<< <<"w">> >>}]

\* what callers pass to updateNote: Partial<Note>
Updates ==
    { [title |-> <<"b">>, color |-> "pink"],
      [id |-> "note_2"],
      [id |-> "note_2", isPinned |-> FALSE],
      [createdAt |-> LoadTime + MaxTicks, updatedAt |-> 0] }

\* an id no note has
UnknownId == "note_0"

IdsOf(arr) == {arr[i].id : i \in DOMAIN arr}

\* what the title field of the editor can hold when the form is submitted
EditorTitles == {<<" ">>, <<" ", "b">>}

\* the inputs of the specifications that follow a call through the
\* controller into notify() and the storage
ViewDrafts ==
    {[title |-> <<" ">>, content |-> <<>>, color |-> "blue", isPinned |-> FALSE,
      tags |-> << <<"w">> >>]}

ViewUpdates == {[title |-> <<"b">>, color |-> "pink"]}

ViewSuffixes == {"k3x"}

Listeners == {"L1", "L2"}

----------------------------------------------------------------------------
(* Set: the listeners of NotesController, the tagsSet of getAllTags *)

\* the mark Set.prototype.delete leaves in the entry list
Empty == "empty"

IsEntry(e) == e # Empty

\* Set.prototype.add
setAdd(es, l) ==
    IF \E i \in DOMAIN es : es[i] = l THEN es ELSE Append(es, l)

\* Set.prototype.delete
setDelete(es, l) == [i \in DOMAIN es |-> IF es[i] = l THEN Empty ELSE es[i]]

\* the values of the Set
setValues(es) == {es[i] : i \in DOMAIN es} \ {Empty}

\* the entry list without the marks, which no caller can tell apart from it
\* once no forEach is running
setCompact(es) == SelectSeq(es, IsEntry)

\* forEach that steps over the entry behind position i
forEachNext_skip(es, i) == IF i + 2 <= Len(es) THEN i + 2 ELSE Len(es) + 1

\* Set.prototype.forEach: the position of the first entry behind position i
\* that was not deleted; Len(es) + 1 when there is none
forEachNext(es, i) ==
    IF \E j \in (i + 1)..Len(es) : es[j] # Empty
    THEN CHOOSE j \in (i + 1)..Len(es) :
            /\ es[j] # Empty
            /\ \A k \in (i + 1)..(j - 1) : es[k] = Empty
    ELSE Len(es) + 1

----------------------------------------------------------------------------
(* NotesModel *)

\* getAllNotes: a new array holding the same Note objects
getAllNotes(arr) == [i \in DOMAIN arr |-> arr[i]]

\* getNoteById
getNoteById(arr, id) ==
    IF findIndex(arr, id) = 0 THEN Null ELSE Some(arr[findIndex(arr, id)])

\* An array a caller holds, read now: its elements are the Note objects of
\* the collection arr wherever the two hold the same object.
sameObjects(held, arr) ==
    [i \in DOMAIN held |->
        IF \E j \in DOMAIN arr : arr[j].ref = held[i].ref
        THEN arr[CHOOSE j \in DOMAIN arr : arr[j].ref = held[i].ref]
        ELSE held[i]]

\* object.title = value, seen through an array that may hold the object ref
writeTitle(arr, ref, value) ==
    [i \in DOMAIN arr |->
        IF arr[i].ref = ref THEN [arr[i] EXCEPT !.title = value] ELSE arr[i]]

\* the id addNote builds from Date.now() and Math.random()
newId(t, suffix) == "note_" \o ToString(t) \o "_" \o suffix

\* addNote with push in place of unshift
addNote_push(arr, note, tId, suffix, tCreated, tUpdated, ref) ==
    LET newNote ==
            Spread(Spread(note,
                          [id |-> newId(tId, suffix),
                           createdAt |-> tCreated,
                           updatedAt |-> tUpdated]),
                   [ref |-> ref])
    IN  [notes |-> arr \o <<newNote>>, ret |-> Some(newNote)]

\* addNote; tId, tCreated and tUpdated are its three reads of Date.now()
addNote(arr, note, tId, suffix, tCreated, tUpdated, ref) ==
    LET newNote ==
            Spread(Spread(note,
                          [id |-> newId(tId, suffix),
                           createdAt |-> tCreated,
                           updatedAt |-> tUpdated]),
                   [ref |-> ref])
    IN  [notes |-> <<newNote>> \o arr, ret |-> Some(newNote)]

\* updateNote
updateNote(arr, id, updates, t, ref) ==
    LET index == findIndex(arr, id)
    IN  IF index = 0 THEN [notes |-> arr, ret |-> Null]
        ELSE LET merged ==
                     Spread(Spread(Spread(arr[index], updates), [updatedAt |-> t]),
                            [ref |-> ref])
             IN  [notes |-> [arr EXCEPT ![index] = merged], ret |-> Some(merged)]

\* deleteNote whose filter keeps the notes with the id
deleteNote_keepsId(arr, id) ==
    LET filtered == SelectSeq(arr, LAMBDA n : n.id = id)
    IN  [notes |-> filtered, ret |-> Some(Len(filtered) < Len(arr))]

\* deleteNote
deleteNote(arr, id) ==
    LET filtered == filterNotId(arr, id)
    IN  [notes |-> filtered, ret |-> Some(Len(filtered) < Len(arr))]

\* togglePin that sets the flag instead of inverting it
togglePin_sets(arr, id, t) ==
    LET index == findIndex(arr, id)
    IN  IF index = 0 THEN [notes |-> arr, ret |-> Null]
        ELSE LET note == [arr[index] EXCEPT !.isPinned = TRUE, !.updatedAt = t]
                 written == [arr EXCEPT ![index] = note]
             IN  [notes |-> <<note>> \o filterNotId(written, id), ret |-> Some(note)]

\* togglePin: writes into the Note object found, then moves it to the top
\* if it is now pinned
togglePin(arr, id, t) ==
    LET index == findIndex(arr, id)
    IN  IF index = 0 THEN [notes |-> arr, ret |-> Null]
        ELSE LET note == [arr[index] EXCEPT !.isPinned = ~@, !.updatedAt = t]
                 written == [arr EXCEPT ![index] = note]
             IN  IF note.isPinned
                 THEN [notes |-> <<note>> \o filterNotId(written, id),
                       ret |-> Some(note)]
                 ELSE [notes |-> written, ret |-> Some(note)]

\* the predicate of searchNotes: lowerTerm is in the title, the content or
\* some tag, each in small letters
searchMatches(n, lowerTerm) ==
    \/ includes(toLowerCase(n.title), lowerTerm)
    \/ includes(toLowerCase(n.content), lowerTerm)
    \/ \E i \in DOMAIN n.tags : includes(toLowerCase(n.tags[i]), lowerTerm)

\* searchNotes whose term keeps its capitals
searchNotes_caseOfTerm(arr, term) ==
    SelectSeq(arr, LAMBDA n : searchMatches(n, term))

\* searchNotes
searchNotes(arr, term) ==
    LET lowerTerm == toLowerCase(term)
    IN  SelectSeq(arr, LAMBDA n : searchMatches(n, lowerTerm))

\* filterByColor
filterByColor(arr, color) == SelectSeq(arr, LAMBDA n : n.color = color)

\* filterByTag: Array.prototype.includes compares the tags with ===
filterByTag(arr, tag) ==
    SelectSeq(arr, LAMBDA n : \E i \in DOMAIN n.tags : n.tags[i] = tag)

\* tagsSet after note.tags.forEach(tag => tagsSet.add(tag)) for the notes of
\* arr in their order
RECURSIVE addTags(_, _)
addTags(tagsSet, tags) ==
    IF tags = <<>> THEN tagsSet
    ELSE addTags(setAdd(tagsSet, Head(tags)), Tail(tags))

RECURSIVE collectTags(_, _)
collectTags(tagsSet, arr) ==
    IF arr = <<>> THEN tagsSet
    ELSE collectTags(addTags(tagsSet, Head(arr).tags), Tail(arr))

\* getAllTags
getAllTags(arr) == sortDefault(collectTags(<<>>, arr))

----------------------------------------------------------------------------
(* StorageService and the storage side of NotesModel *)

\* JSON.stringify of { notes }: every note becomes the list of its field
\* values; the identity of the object is not part of the text
JSONstringify(data) ==
    [notes |-> [i \in DOMAIN data.notes |->
                   [k \in DOMAIN NoteFields |-> data.notes[i][NoteFields[k]]]]]

\* JSON.parse of such a text: new objects, numbered from ref on
JSONparse(text, ref) ==
    [notes |-> [i \in DOMAIN text.notes |->
                   Spread([k \in {NoteFields[j] : j \in DOMAIN NoteFields} |->
                              text.notes[i][CHOOSE j \in DOMAIN NoteFields :
                                                NoteFields[j] = k]],
                          [ref |-> ref + i - 1])]]

\* a stored text that is not JSON: the text of a collection, cut short
NotJSON == [cut |-> <<"{", "n", "o", "t", "e", "s">>]

\* JSON.parse accepts the text
canParse(text) == "notes" \in DOMAIN text

\* saveToStorage without its try/catch: what setItem raises reaches the
\* caller
saveToStorage_noCatch(client, item, value, threw) ==
    IF ~client THEN [item |-> item, outcome |-> "skipped"]
    ELSE IF threw THEN [item |-> item, outcome |-> "raised"]
    ELSE [item |-> Some(JSONstringify(value)), outcome |-> "ok"]

\* StorageService.saveToStorage: the item afterwards; threw says that
\* sessionStorage.setItem raised. The outcome is "skipped" (not a client),
\* "threw" (raised and caught: the item is as before) or "ok"; an outcome
\* "raised" would be an exception that reaches the caller.
saveToStorage(client, item, value, threw) ==
    IF ~client THEN [item |-> item, outcome |-> "skipped"]
    ELSE IF threw THEN [item |-> item, outcome |-> "threw"]
    ELSE [item |-> Some(JSONstringify(value)), outcome |-> "ok"]

\* StorageService.loadFromStorage; Null stands for the defaultValue null
\* that NotesModel.loadFromStorage passes. threw says that
\* sessionStorage.getItem raised; JSON.parse raises on a text that is not
\* JSON; both are caught and the default is returned.
storageLoad(client, item, threw, ref) ==
    IF ~client THEN Null
    ELSE IF threw THEN Null
    ELSE IF item = Null THEN Null
    ELSE IF ~canParse(item[1]) THEN Null
    ELSE Some(JSONparse(item[1], ref))

\* syncToStorage that writes the item only when there is none yet
syncToStorage_once(client, item, arr, threw) ==
    IF item = Null
    THEN saveToStorage(client, item, [notes |-> arr], threw)
    ELSE [item |-> item, outcome |-> "ok"]

\* NotesModel.syncToStorage
syncToStorage(client, item, arr, threw) ==
    saveToStorage(client, item, [notes |-> arr], threw)

\* a constructor that takes an empty initialNotes for a missing one
newNotesModel_emptyIsMissing(initialNotes) ==
    IF initialNotes = Null \/ initialNotes = Some(<<>>)
    THEN getAllNotes(DEFAULT_NOTES)
    ELSE initialNotes[1]

\* new NotesModel(initialNotes): initialNotes || [...DEFAULT_NOTES]; an
\* empty array is not falsy
newNotesModel(initialNotes) ==
    IF initialNotes = Null THEN getAllNotes(DEFAULT_NOTES) ELSE initialNotes[1]

\* NotesModel.loadFromStorage: new NotesModel(data?.notes)
loadFromStorage(client, item, threw, ref) ==
    LET data == storageLoad(client, item, threw, ref)
    IN  newNotesModel(IF data = Null THEN Null ELSE Some(data[1].notes))

----------------------------------------------------------------------------
(* Calls of the NotesModel methods, directly or through NotesController *)

\* A method of NotesModel has run: res holds the notes it leaves and what it
\* returned, t is the last value it read from Date.now(), ref the next free
\* object identity.
ModelCall(name, id, arg, res, t, ref) ==
    /\ pc = "idle"
    /\ nops < MaxOps
    /\ notes' = res.notes
    /\ clock' = t
    /\ nextRef' = ref
    /\ nops' = nops + 1
    /\ snap' = sameObjects(snap, res.notes)
    /\ UNCHANGED <<isClient, storage, entries, given, sortVars, queryVars>>

\* notify() begins: forEach is about to call the first listener
NotifyBegin ==
    /\ pc' = "notify"
    /\ idx' = forEachNext(entries, 0)
    /\ calls' = [l \in Listeners |-> 0]
    /\ view' = [l \in Listeners |-> Null]
    /\ saved' = "pending"

\* The method is called on the model itself (via = "model"), or by the
\* controller method of the same name (via = "controller"), which then
\* calls notify().
Call(via, name, id, arg, res, t, ref) ==
    /\ ModelCall(name, id, arg, res, t, ref)
    /\ op' = [via |-> via, name |-> name, id |-> id, arg |-> arg, ret |-> res.ret,
              pre |-> notes, subs |-> setValues(entries), at |-> t]
    /\ IF via = "controller"
       THEN NotifyBegin
       ELSE UNCHANGED <<pc, idx, calls, view, saved>>

\* NotesModel.addNote, NotesController.addNote
AddNote(via, note, suffix) ==
    \E tId \in DateNow(clock) :
      \E tCreated \in DateNow(tId) :
        \E tUpdated \in DateNow(tCreated) :
          Call(via, "add", "", note,
               addNote(notes, note, tId, suffix, tCreated, tUpdated, nextRef),
               tUpdated, nextRef + 1)

\* NotesModel.updateNote, NotesController.updateNote
UpdateNote(via, id, updates) ==
    \E t \in DateNow(clock) :
      IF findIndex(notes, id) # 0
      THEN Call(via, "update", id, updates,
                updateNote(notes, id, updates, t, nextRef), t, nextRef + 1)
      ELSE Call(via, "update", id, updates,
                updateNote(notes, id, updates, t, nextRef), clock, nextRef)

\* NotesModel.deleteNote, NotesController.deleteNote
DeleteNote(via, id) ==
    Call(via, "delete", id, Null, deleteNote(notes, id), clock, nextRef)

\* NotesModel.togglePin, NotesController.togglePin
TogglePin(via, id) ==
    \E t \in DateNow(clock) :
      Call(via, "togglePin", id, Null, togglePin(notes, id, t),
           IF findIndex(notes, id) # 0 THEN t ELSE clock, nextRef)

----------------------------------------------------------------------------
(* NotesController: notify, subscribe *)

\* notify(): forEach calls the next listener. The listener reads the notes;
\* what else it does is its own business: here it may call the unsubscribe
\* function of one listener, its own included (u = Some(l)), or none (Null).
InvokeListener(u) ==
    /\ pc = "notify"
    /\ idx <= Len(entries)
    /\ calls' = [calls EXCEPT ![entries[idx]] = @ + 1]
    /\ view' = [view EXCEPT ![entries[idx]] = Some(getAllNotes(notes))]
    /\ entries' = IF u = Null THEN entries ELSE setDelete(entries, u[1])
    /\ idx' = forEachNext(entries', idx)
    /\ UNCHANGED <<notes, nextRef, clock, isClient, storage, pc, op, saved, nops,
                   callerVars, sortVars, queryVars>>

\* notify(): forEach is through, syncToStorage() runs and the operation
\* returns; threw says that sessionStorage.setItem raised
FinishNotify(threw) ==
    /\ pc = "notify"
    /\ idx > Len(entries)
    /\ LET r == syncToStorage(isClient, storage, notes, threw)
       IN  /\ storage' = r.item
           /\ saved' = r.outcome
    /\ pc' = "idle"
    /\ idx' = 0
    /\ entries' = setCompact(entries)
    /\ UNCHANGED <<notes, nextRef, clock, isClient, calls, view, op, nops,
                   callerVars, sortVars, queryVars>>

\* NotesController.subscribe
Subscribe(l) ==
    /\ pc = "idle"
    /\ entries' = setAdd(entries, l)
    /\ UNCHANGED <<notes, nextRef, clock, isClient, storage, pc, idx, calls, view,
                   op, saved, nops, callerVars, sortVars, queryVars>>

\* the function subscribe returned, called while no notify() runs
Unsubscribe(l) ==
    /\ pc = "idle"
    /\ entries' = setCompact(setDelete(entries, l))
    /\ UNCHANGED <<notes, nextRef, clock, isClient, storage, pc, idx, calls, view,
                   op, saved, nops, callerVars, sortVars, queryVars>>

----------------------------------------------------------------------------
(* The view: NoteEditorModal.handleSubmit and App.handleSaveNote *)

\* the note data handleSubmit passes to onSave; editing is editorModal.note
noteData(editing, title, content, color, tags) ==
    [title |-> trim(title), content |-> trim(content), color |-> color,
     isPinned |-> IF editing = Null THEN FALSE ELSE editing[1].isPinned,
     tags |-> tags]

\* handleSubmit with a title that is empty after trimming: it returns before
\* onSave, no controller method is called and nothing changes
SubmitRejected(title) ==
    /\ pc = "idle"
    /\ trim(title) = <<>>
    /\ UNCHANGED vars

\* handleSubmit, then handleSaveNote with no note being edited
SubmitNew(title, content, color, tags, suffix) ==
    /\ trim(title) # <<>>
    /\ AddNote("controller", noteData(Null, title, content, color, tags), suffix)

\* handleSubmit, then handleSaveNote with editorModal.note set
SubmitEdit(editing, title, content, color, tags) ==
    /\ trim(title) # <<>>
    /\ UpdateNote("controller", editing.id,
                  noteData(Some(editing), title, content, color, tags))

HandleSubmit ==
    \E title \in EditorTitles :
      \/ SubmitRejected(title)
      \/ \E suffix \in ViewSuffixes :
           SubmitNew(title, <<"c", " ">>, "purple", << <<"w">> >>, suffix)
      \/ \E i \in DOMAIN notes :
           SubmitEdit(notes[i], title, <<"c", " ">>, "purple", << <<"w">> >>)

\* the notes of arr whose id some note of kept has
someWithId(arr, kept) ==
    SelectSeq(arr, LAMBDA n : \E i \in DOMAIN kept : kept[i].id = n.id)

\* App.displayedNotes; selectedColor and selectedTag are null or a value, and
\* the empty string counts as no search term and as no tag
displayedNotes(arr, searchTerm, selectedColor, selectedTag, sortOption) ==
    LET all == getAllNotes(arr)
        searched ==
            IF searchTerm # <<>>
            THEN someWithId(searchNotes(arr, searchTerm), all)
            ELSE all
        colored ==
            IF selectedColor # Null
            THEN someWithId(filterByColor(arr, selectedColor[1]), searched)
            ELSE searched
        tagged ==
            IF selectedTag # Null /\ selectedTag[1] # <<>>
            THEN someWithId(filterByTag(arr, selectedTag[1]), colored)
            ELSE colored
    IN  sortNotes(tagged, sortOption)

----------------------------------------------------------------------------
(* The application: the controller, its listeners, the view and the storage *)

\* the state around the collection when the component is first rendered
InitAround(client) ==
    /\ isClient = client
    /\ storage = Null
    /\ nextRef = 3
    /\ clock = LoadTime
    /\ entries = <<>>
    /\ pc = "idle"
    /\ idx = 0
    /\ calls = [l \in Listeners |-> 0]
    /\ view = [l \in Listeners |-> Null]
    /\ op = [via |-> "none", name |-> "init", id |-> "", arg |-> Null, ret |-> Null,
             pre |-> <<>>, subs |-> {}, at |-> LoadTime]
    /\ saved = "none"
    /\ nops = 0
    /\ snap = <<>>
    /\ given = Null

InitApp(client) ==
    /\ InitAround(client)
    /\ notes = loadFromStorage(client, Null, FALSE, 3)

InitSortIdle ==
    /\ sortIn = <<>>
    /\ sortBy = "none"
    /\ sortOut = <<>>

InitQueryIdle ==
    /\ asked = [name |-> "none", arg |-> Null, of |-> <<>>]
    /\ answer = <<>>

Init ==
    /\ \E client \in BOOLEAN : InitApp(client)
    /\ InitSortIdle
    /\ InitQueryIdle

\* The listener of App only makes the component render again. The
\* controller's methods are called by the view (HandleSubmit) and directly.
Next ==
    \/ \E note \in ViewDrafts, suffix \in ViewSuffixes :
         AddNote("controller", note, suffix)
    \/ \E id \in IdsOf(notes) \cup {UnknownId}, updates \in ViewUpdates :
         UpdateNote("controller", id, updates)
    \/ \E id \in IdsOf(notes) \cup {UnknownId} : DeleteNote("controller", id)
    \/ \E id \in IdsOf(notes) \cup {UnknownId} : TogglePin("controller", id)
    \/ HandleSubmit
    \/ InvokeListener(Null)
    \/ \E threw \in BOOLEAN : FinishNotify(threw)
    \/ Subscribe("L1")
    \/ Unsubscribe("L1")

Spec == Init /\ [][Next]_vars

----------------------------------------------------------------------------
(* NotesController with any listeners: they may unsubscribe each other and  *)
(* themselves while notify() runs                                           *)

InitNotify ==
    /\ InitApp(TRUE)
    /\ InitSortIdle
    /\ InitQueryIdle

NextNotify ==
    \/ \E note \in ViewDrafts, suffix \in ViewSuffixes :
         AddNote("controller", note, suffix)
    \/ \E id \in IdsOf(notes) \cup {UnknownId}, updates \in ViewUpdates :
         UpdateNote("controller", id, updates)
    \/ \E id \in IdsOf(notes) \cup {UnknownId} : DeleteNote("controller", id)
    \/ \E id \in IdsOf(notes) \cup {UnknownId} : TogglePin("controller", id)
    \/ \E u \in {Null} \cup {Some(l) : l \in Listeners} : InvokeListener(u)
    \/ FinishNotify(FALSE)
    \/ \E l \in Listeners : Subscribe(l)
    \/ \E l \in Listeners : Unsubscribe(l)

SpecNotify == InitNotify /\ [][NextNotify]_vars

----------------------------------------------------------------------------
(* NotesModel on its own: its four mutating methods, called directly *)

InitModel ==
    /\ InitApp(TRUE)
    /\ InitSortIdle
    /\ InitQueryIdle

NextModel ==
    \/ \E note \in Drafts, suffix \in RandomSuffixes : AddNote("model", note, suffix)
    \/ \E id \in IdsOf(notes) \cup {UnknownId}, updates \in Updates :
         UpdateNote("model", id, updates)
    \/ \E id \in IdsOf(notes) \cup {UnknownId} : DeleteNote("model", id)
    \/ \E id \in IdsOf(notes) \cup {UnknownId} : TogglePin("model", id)

SpecModel == InitModel /\ [][NextModel]_vars

----------------------------------------------------------------------------
(* A caller of getAllNotes() that keeps the returned array and writes to it *)

\* getAllNotes() returns to a caller that keeps the array
GetAllNotes ==
    /\ pc = "idle"
    /\ given = Null
    /\ snap' = getAllNotes(notes)
    /\ given' = Some([of |-> notes, ops |-> nops, written |-> FALSE])
    /\ UNCHANGED <<notes, nextRef, clock, isClient, storage, entries, pc, idx, calls,
                   view, op, saved, nops, sortVars, queryVars>>

\* the caller has written to what it holds, once
CallerWrites ==
    /\ pc = "idle"
    /\ given # Null
    /\ ~given[1].written
    /\ given' = Some([given[1] EXCEPT !.written = TRUE])
    /\ UNCHANGED <<nextRef, clock, isClient, storage, entries, pc, idx, calls, view, op,
                   saved, nops, sortVars, queryVars>>

\* snapshot.push(note) with a Note object of the caller: the array is the
\* caller's own, the collection has another
SnapshotPush(note) ==
    /\ CallerWrites
    /\ snap' = Append(snap, note)
    /\ UNCHANGED notes

\* snapshot.shift()
SnapshotShift ==
    /\ CallerWrites
    /\ snap # <<>>
    /\ snap' = Tail(snap)
    /\ UNCHANGED notes

\* snapshot[i].title = title: the Note object is the one the collection
\* holds, as long as the collection holds it
SnapshotSetTitle(i, title) ==
    /\ CallerWrites
    /\ i \in DOMAIN snap
    /\ snap' = writeTitle(snap, snap[i].ref, title)
    /\ notes' = writeTitle(notes, snap[i].ref, title)

\* a Note object the caller built itself
CallerNote ==
    [ref |-> 0, id |-> "note_9", title |-> <<"z">>, content |-> <<>>, color |-> "gray",
     isPinned |-> FALSE, tags |-> <<>>, createdAt |-> 0, updatedAt |-> 0]

InitSnapshot ==
    /\ InitApp(TRUE)
    /\ InitSortIdle
    /\ InitQueryIdle

NextSnapshot ==
    \/ GetAllNotes
    \/ SnapshotPush(CallerNote)
    \/ SnapshotShift
    \/ \E i \in DOMAIN snap : SnapshotSetTitle(i, <<"z">>)
    \/ \E note \in ViewDrafts, suffix \in ViewSuffixes : AddNote("model", note, suffix)
    \/ \E id \in IdsOf(notes), updates \in ViewUpdates : UpdateNote("model", id, updates)
    \/ \E id \in IdsOf(notes) : DeleteNote("model", id)
    \/ \E id \in IdsOf(notes) : TogglePin("model", id)

SpecSnapshot == InitSnapshot /\ [][NextSnapshot]_vars

----------------------------------------------------------------------------
(* The query methods on a model built over any small collection *)

\* what the query methods read of a note
QueryKeys ==
    [title : {<<"a", "B">>, <<"c">>},
     content : {<<>>, <<"b", "a">>},
     tags : {<<>>, << <<"W">> >>, << <<"w">>, <<"A", "b">> >>}]

\* the i-th note of initialNotes
QueryNote(i, k) ==
    [ref |-> i, id |-> "note_" \o ToString(i), title |-> k.title,
     content |-> k.content, color |-> "gray", isPinned |-> FALSE, tags |-> k.tags,
     createdAt |-> 0, updatedAt |-> 0]

\* the terms given to searchNotes
SearchTerms == {<<>>, <<"A">>, <<"a", "b">>, <<"w">>}

\* new NotesModel(initialNotes), before any query
InitQuery ==
    /\ InitAround(TRUE)
    /\ \E n \in 0..MaxNotes :
         \E ks \in [1..n -> QueryKeys] :
           notes = newNotesModel(Some([i \in 1..n |-> QueryNote(i, ks[i])]))
    /\ InitSortIdle
    /\ InitQueryIdle

\* a query method has returned
Query(name, arg, result) ==
    /\ asked.name = "none"
    /\ asked' = [name |-> name, arg |-> arg, of |-> notes]
    /\ answer' = result
    /\ UNCHANGED <<appVars, sortVars>>

\* NotesController.getAllTags, which calls NotesModel.getAllTags
GetAllTags == Query("getAllTags", Null, getAllTags(notes))

\* NotesController.searchNotes, which calls NotesModel.searchNotes
SearchNotes(term) == Query("searchNotes", term, searchNotes(notes, term))

NextQuery ==
    \/ GetAllTags
    \/ \E term \in SearchTerms : SearchNotes(term)

SpecQuery == InitQuery /\ [][NextQuery]_vars

----------------------------------------------------------------------------
(* The list App displays, computed over the collections NotesModel reaches *)

\* the filters and the order the user has chosen
Filters ==
    [searchTerm : {<<>>, <<"l">>},
     selectedColor : {Null, Some("yellow")},
     selectedTag : {Null, Some(<<"t", "a">>)},
     sortBy : {"date-desc", "title-asc"}]

\* the useMemo of displayedNotes runs
DisplayedNotes(f) ==
    Query("displayedNotes", f,
          displayedNotes(notes, f.searchTerm, f.selectedColor, f.selectedTag, f.sortBy))

InitDisplay ==
    /\ InitApp(TRUE)
    /\ InitSortIdle
    /\ InitQueryIdle

NextDisplay ==
    \/ \E f \in Filters : DisplayedNotes(f)
    \/ \E note \in ViewDrafts, suffix \in ViewSuffixes : AddNote("model", note, suffix)
    \/ \E id \in IdsOf(notes), updates \in Updates : UpdateNote("model", id, updates)
    \/ \E id \in IdsOf(notes) : DeleteNote("model", id)
    \/ \E id \in IdsOf(notes) : TogglePin("model", id)

SpecDisplay == InitDisplay /\ [][NextDisplay]_vars

----------------------------------------------------------------------------
(* The storage over the life of a page: the item may hold a text the       *)
(* application did not write, setItem and getItem may raise, and App may   *)
(* be mounted again, which builds a new model from what the storage holds. *)
(* togglePin is left out: it writes to the objects of DEFAULT_NOTES, which *)
(* the next model built from the defaults would share.                     *)

\* App's useState initialiser: new NotesController(NotesModel.loadFromStorage());
\* threw says that sessionStorage.getItem raised. answer is what
\* StorageService.loadFromStorage returned, asked.of the collection the
\* application held before.
Mount(threw) ==
    /\ pc = "idle"
    /\ asked.name = "none"
    /\ LET got == storageLoad(isClient, storage, threw, nextRef)
       IN  /\ answer' = got
           /\ nextRef' = nextRef + (IF got = Null THEN 0 ELSE Len(got[1].notes))
    /\ notes' = loadFromStorage(isClient, storage, threw, nextRef)
    /\ asked' = [name |-> "loadFromStorage",
                 arg |-> [item |-> storage, threw |-> threw, saved |-> saved],
                 of |-> notes]
    /\ entries' = <<>>
    /\ op' = [via |-> "none", name |-> "mount", id |-> "", arg |-> Null, ret |-> Null,
              pre |-> notes, subs |-> {}, at |-> clock]
    /\ UNCHANGED <<clock, isClient, storage, pc, idx, calls, view, saved, nops,
                   callerVars, sortVars>>

\* something else has left a text under the key before the application
\* saved anything
ForeignWrite ==
    /\ pc = "idle"
    /\ isClient
    /\ saved = "none"
    /\ storage = Null
    /\ storage' = Some(NotJSON)
    /\ UNCHANGED <<notes, nextRef, clock, isClient, entries, pc, idx, calls, view, op,
                   saved, nops, callerVars, sortVars, queryVars>>

InitStorage ==
    /\ \E client \in BOOLEAN : InitApp(client)
    /\ InitSortIdle
    /\ InitQueryIdle

NextStorage ==
    \/ \E note \in ViewDrafts, suffix \in ViewSuffixes :
         AddNote("controller", note, suffix)
    \/ \E id \in IdsOf(notes), updates \in ViewUpdates :
         UpdateNote("controller", id, updates)
    \/ \E id \in IdsOf(notes) : DeleteNote("controller", id)
    \/ InvokeListener(Null)
    \/ \E threw \in BOOLEAN : FinishNotify(threw)
    \/ Subscribe("L1")
    \/ \E threw \in BOOLEAN : Mount(threw)
    \/ ForeignWrite

SpecStorage == InitStorage /\ [][NextStorage]_vars

----------------------------------------------------------------------------
(* sortNotes on its own: every array of up to MaxSortLen notes, every criterion *)

SortOptions == {"date-desc", "date-asc", "title-asc", "title-desc"}

\* what sortNotes reads of a note
SortKeys == [title : {<<"a">>, <<"B">>}, updatedAt : {1, 2}, isPinned : BOOLEAN]

\* the i-th note of an input array
SortNote(i, k) ==
    [ref |-> i, id |-> "note_" \o ToString(i), title |-> k.title, content |-> <<>>,
     color |-> "gray", isPinned |-> k.isPinned, tags |-> <<>>, createdAt |-> 0,
     updatedAt |-> k.updatedAt]

InitSort ==
    /\ InitApp(TRUE)
    /\ \E n \in 0..MaxSortLen :
         \E ks \in [1..n -> SortKeys] :
           sortIn = [i \in 1..n |-> SortNote(i, ks[i])]
    /\ sortBy = "none"
    /\ sortOut = <<>>
    /\ InitQueryIdle

\* NotesController.sortNotes, which calls NotesModel.sortNotes
SortNotes(sortOption) ==
    /\ sortBy = "none"
    /\ sortBy' = sortOption
    /\ sortOut' = sortNotes(sortIn, sortOption)
    /\ UNCHANGED <<appVars, sortIn, queryVars>>

NextSort == \E sortOption \in SortOptions : SortNotes(sortOption)

SpecSort == InitSort /\ [][NextSort]_vars

----------------------------------------------------------------------------
(* Properties *)

\* the latest call was a mutating method that found what it was to change
Succeeded ==
    \/ op.name = "add"
    \/ op.name \in {"update", "togglePin"} /\ op.ret # Null
    \/ op.name = "delete" /\ op.ret = Some(TRUE)

\* the latest call was update, togglePin or delete with an id no note had
UnknownIdCall ==
    /\ op.name \in {"update", "togglePin", "delete"}
    /\ op.id \notin IdsOf(op.pre)

\* C1: whatever array sortNotes is given and whichever of the four criteria,
\* every pinned note of the result stands before every unpinned one.
C1_PinnedBeforeUnpinned ==
    sortBy \in SortOptions =>
        \A i, j \in DOMAIN sortOut :
            (sortOut[i].isPinned /\ ~sortOut[j].isPinned) => i < j

\* C1 happens: an unpinned note updated later stood before a pinned one, the
\* sort is by date descending, and the pinned note comes out first.
C1_Witness ==
    /\ sortBy = "date-desc"
    /\ Len(sortIn) = 3
    /\ ~sortIn[1].isPinned /\ sortIn[1].updatedAt = 2
    /\ sortIn[3].isPinned /\ sortIn[3].updatedAt = 1
    /\ sortOut[1] = sortIn[3]

\* C2: after addNote of a draft with a title, the new note is the first of
\* getAllNotes() and carries the draft's fields, the collection is one longer,
\* and the notes it held before follow in their order with their values.
C2_AddAtFront ==
    (op.name = "add" /\ trim(op.arg.title) # <<>>) =>
        /\ Len(getAllNotes(notes)) = Len(op.pre) + 1
        /\ getAllNotes(notes)[1] = op.ret[1]
        /\ \A f \in DOMAIN op.arg : getAllNotes(notes)[1][f] = op.arg[f]
        /\ Tail(getAllNotes(notes)) = op.pre

\* C2 happens: a second note was added on top of a first added one.
C2_Witness ==
    /\ op.name = "add"
    /\ trim(op.arg.title) # <<>>
    /\ Len(notes) = 4
    /\ notes[2].id \notin IdsOf(DEFAULT_NOTES)

\* C3: the note addNote builds for a draft with a title has an id no note of
\* the collection had, and its createdAt equals its updatedAt.
C3_FreshIdAndOneInstant ==
    (op.name = "add" /\ trim(op.arg.title) # <<>>) =>
        /\ op.ret[1].id \notin IdsOf(op.pre)
        /\ op.ret[1].createdAt = op.ret[1].updatedAt

\* C4: an add of a draft whose title is empty after trimming leaves the
\* collection as it was, and neither the collection nor the stored item ever
\* holds a title that is empty after trimming.
C4_BlankTitleRejected ==
    /\ (op.name = "add" /\ trim(op.arg.title) = <<>>) => notes = op.pre
    /\ \A i \in DOMAIN notes : trim(notes[i].title) # <<>>
    /\ storage # Null =>
           \A i \in DOMAIN JSONparse(storage[1], 1).notes :
               trim(JSONparse(storage[1], 1).notes[i].title) # <<>>

\* C5: after updateNote of an existing note, whatever the partial fields, the
\* stored note has the id and createdAt it had, and its updatedAt is the time
\* of the call, not before the updatedAt it had.
C5_UpdateKeepsIdAndCreatedAt ==
    (op.name = "update" /\ op.ret # Null) =>
        LET i == findIndex(op.pre, op.id)
        IN  /\ notes[i].id = op.pre[i].id
            /\ notes[i].createdAt = op.pre[i].createdAt
            /\ notes[i].updatedAt = op.at
            /\ notes[i].updatedAt >= op.pre[i].updatedAt

\* C6: updateNote, togglePin and deleteNote with an id no note has return
\* null, null and false, and leave the collection as it was.
C6_UnknownIdIsNoOp ==
    UnknownIdCall =>
        /\ op.ret = IF op.name = "delete" THEN Some(FALSE) ELSE Null
        /\ notes = op.pre

\* C6 happens: deleteNote was called with an unknown id on a collection that
\* an earlier call had changed.
C6_Witness ==
    /\ UnknownIdCall
    /\ op.name = "delete"
    /\ nops = 2
    /\ notes # DEFAULT_NOTES
    /\ notes # <<>>

\* forEach of the running notify() has called its last listener
ForEachDone == pc = "notify" /\ idx > Len(entries)

\* C7: a controller updateNote, deleteNote or togglePin with an id no note
\* has calls no listener and writes nothing to the storage.
C7_NoNotifyOnUnknownId ==
    (op.via = "controller" /\ UnknownIdCall) =>
        /\ \A l \in Listeners : calls[l] = 0
        /\ saved # "ok"

\* C8: every listener that was subscribed when notify() began has been
\* called when its forEach is through, also one whose unsubscribe function
\* another listener called meanwhile.
C8_RoundCallsAllSubscribed ==
    (op.via = "controller" /\ ForEachDone) =>
        \A l \in op.subs : calls[l] = 1

\* C9: once a controller operation that changed the collection has returned
\* and its write to the storage went through, the notes stored under the
\* notes key are the notes in memory: as many, in that order, field by field.
C9_StoredEqualsMemory ==
    (op.via = "controller" /\ Succeeded /\ pc = "idle" /\ saved = "ok") =>
        /\ storage # Null
        /\ FieldsOfAll(JSONparse(storage[1], 1).notes) = FieldsOfAll(notes)

\* C9 happens: a second successful operation has overwritten what the first
\* one stored.
C9_Witness ==
    /\ op.via = "controller" /\ Succeeded /\ pc = "idle" /\ saved = "ok"
    /\ nops = 2
    /\ op.name = "togglePin"
    /\ Len(notes) = 3
    /\ notes[1].isPinned /\ notes[1].id = "note_2"

\* the collection in l's view shows what the latest operation did
ShowsResult(l) ==
    LET seen == view[l][1]
    IN  CASE op.name = "add" -> seen # <<>> /\ seen[1] = op.ret[1]
          [] op.name \in {"update", "togglePin"} ->
                 \E i \in DOMAIN seen : seen[i] = op.ret[1]
          [] op.name = "delete" ->
                 /\ op.id \notin IdsOf(seen)
                 /\ Len(seen) < Len(op.pre)
          [] OTHER -> FALSE

C11_SnapshotIsDefensive ==
    given # Null =>
        /\ given[1].ops = nops =>
               /\ getAllNotes(notes) = given[1].of
               /\ \A id \in IdsOf(given[1].of) :
                      getNoteById(notes, id) = getNoteById(given[1].of, id)
        /\ ~given[1].written => snap = given[1].of

\* C12: in every state the mutating methods of the model can reach from the
\* default collection, no two notes of the collection have the same id.
C12_UniqueIds ==
    \A i, j \in DOMAIN notes : notes[i].id = notes[j].id => i = j

\* the array arr without its element at position i
without(arr, i) == SubSeq(arr, 1, i - 1) \o SubSeq(arr, i + 1, Len(arr))

\* the Note objects of arr, in its order
RefsOf(arr) == [k \in DOMAIN arr |-> arr[k].ref]

\* C13: when togglePin has pinned a note that was not pinned, the collection
\* has the length and the ids it had, that note is its first, and the other
\* notes follow in the order they had.
C13_PinPromotion ==
    (op.name = "togglePin" /\ op.ret # Null /\ op.ret[1].isPinned) =>
        /\ Len(notes) = Len(op.pre)
        /\ IdsOf(notes) = IdsOf(op.pre)
        /\ notes[1] = op.ret[1]
        /\ RefsOf(Tail(notes)) = RefsOf(without(op.pre, findIndex(op.pre, op.id)))

\* C14: a togglePin that follows at once on a togglePin of the same id, which
\* found a note, finds the same note and leaves it, in what it returns and in
\* the collection, with the isPinned it had before the first of the two.
C14_TogglePinTwiceRestores ==
    [][(/\ op.name = "togglePin" /\ op.ret # Null
        /\ nops' = nops + 1
        /\ op'.name = "togglePin" /\ op'.id = op.id)
       => LET original == op.pre[findIndex(op.pre, op.id)]
          IN  /\ op'.ret # Null
              /\ op'.ret[1].ref = original.ref
              /\ op'.ret[1].isPinned = original.isPinned
              /\ notes'[findIndex(notes', op.id)] = op'.ret[1]]_vars

\* C14 happens: note_2, not pinned at first, was pinned by a first togglePin,
\* which moved it to the front, and a second togglePin has unpinned it.
C14_Witness ==
    /\ op.name = "togglePin" /\ op.id = "note_2" /\ op.ret # Null
    /\ nops = 2
    /\ RefsOf(op.pre) = <<2, 1>>
    /\ op.pre[1].isPinned
    /\ ~notes[1].isPinned /\ notes[1].ref = 2

\* C15: deleteNote of an id some note has returns true and removes that one
\* note: the collection is one shorter, the other notes keep their order and
\* their values, and getNoteById of the id returns null afterwards.
C15_DeleteRemovesExactlyOne ==
    (op.name = "delete" /\ op.id \in IdsOf(op.pre)) =>
        /\ op.ret = Some(TRUE)
        /\ getNoteById(notes, op.id) = Null
        /\ Len(notes) = Len(op.pre) - 1
        /\ notes = without(op.pre, findIndex(op.pre, op.id))

\* C16: getAllTags returns the tags of all notes in small letters: every tag
\* of a note is there in small letters and nothing else is, no entry is there
\* twice, and the entries ascend.
C16_TagsNormalizedSortedUnique ==
    asked.name = "getAllTags" =>
        /\ {answer[i] : i \in DOMAIN answer} =
               UNION {{toLowerCase(asked.of[i].tags[j]) :
                           j \in DOMAIN asked.of[i].tags} : i \in DOMAIN asked.of}
        /\ \A i, j \in DOMAIN answer :
               i < j => defaultCompare(answer[i], answer[j]) < 0

\* c and d are the same character or the same letter, small and capital
SameLetter(c, d) ==
    \/ c = d
    \/ \E i \in DOMAIN Letters : {c, d} = {Letters[i], Capitals[i]}

\* term stands somewhere in s when the case of letters is ignored
ContainsIgnoringCase(s, term) ==
    \E k \in 0..(Len(s) - Len(term)) :
        \A i \in DOMAIN term : SameLetter(s[k + i], term[i])

\* the title, the content or some tag of n contains term
NoteContains(n, term) ==
    \/ ContainsIgnoringCase(n.title, term)
    \/ ContainsIgnoringCase(n.content, term)
    \/ \E i \in DOMAIN n.tags : ContainsIgnoringCase(n.tags[i], term)

\* n passes every filter of f that is active
PassesFilters(n, f) ==
    /\ f.searchTerm # <<>> => NoteContains(n, f.searchTerm)
    /\ f.selectedColor # Null => n.color = f.selectedColor[1]
    /\ f.selectedTag # Null =>
           \E i \in DOMAIN n.tags : n.tags[i] = f.selectedTag[1]

\* C17: the displayed list is sortNotes of the notes of the collection that
\* pass every active filter: each of those notes, and no other note.
C17_DisplayedIsSortOfIntersection ==
    asked.name = "displayedNotes" =>
        answer = sortNotes(SelectSeq(asked.of, LAMBDA n : PassesFilters(n, asked.arg)),
                           asked.arg.sortBy)

\* C18: searchNotes with the empty term returns the whole collection in its
\* order; with another term it returns, in their order, the notes whose
\* title, content or some tag contains the term when the case of letters is
\* ignored, and no other note.
C18_SearchIgnoresCase ==
    asked.name = "searchNotes" =>
        /\ asked.arg = <<>> => answer = asked.of
        /\ asked.arg # <<>> =>
               answer = SelectSeq(asked.of, LAMBDA n : NoteContains(n, asked.arg))

\* C18 happens: of two notes the search for "ab" has returned the one that
\* has it in a tag only, there written "Ab", and not the other.
C18_Witness ==
    /\ asked.name = "searchNotes"
    /\ asked.arg = <<"a", "b">>
    /\ Len(asked.of) = 2
    /\ asked.of[1].title = <<"c">> /\ asked.of[1].content = <<>>
    /\ asked.of[1].tags = << <<"w">>, <<"A", "b">> >>
    /\ asked.of[2].title = <<"c">> /\ asked.of[2].tags = <<>>
    /\ answer = <<asked.of[1]>>

\* the latest controller operation has left its change in the collection
AppliedInMemory ==
    CASE op.name = "add" -> notes # <<>> /\ notes[1] = op.ret[1]
      [] op.name = "update" -> \E i \in DOMAIN notes : notes[i] = op.ret[1]
      [] op.name = "delete" -> op.id \notin IdsOf(notes) /\ Len(notes) < Len(op.pre)
      [] OTHER -> FALSE

\* the latest load could not read a collection: it ran where there is no
\* sessionStorage, getItem raised, or the stored text is not JSON
LoadFailed ==
    \/ ~isClient
    \/ asked.arg.threw
    \/ asked.arg.item # Null /\ ~canParse(asked.arg.item[1])

\* C19: no exception of the storage reaches the caller of saveToStorage or
\* loadFromStorage. Where there is no sessionStorage a save writes nothing
\* and a load returns the default; when setItem or getItem raises, or the
\* stored text is not JSON, a load returns the default (so the model holds
\* the default notes), and a controller operation whose save failed has
\* still changed the collection and called every listener once.
C19_StorageNeverRaises ==
    /\ saved # "raised"
    /\ ~isClient => storage = Null /\ saved \in {"none", "pending", "skipped"}
    /\ (asked.name = "loadFromStorage" /\ LoadFailed) =>
           /\ answer = Null
           /\ op.name = "mount" => FieldsOfAll(notes) = FieldsOfAll(DEFAULT_NOTES)
    /\ (op.via = "controller" /\ pc = "idle" /\ saved \in {"threw", "skipped"}) =>
           /\ AppliedInMemory
           /\ \A l \in op.subs : calls[l] = 1 /\ ShowsResult(l)

\* C19 happens: a load has met a text that is not JSON and returned the
\* default; later a controller operation with a listener subscribed has
\* returned although setItem raised.
C19_Witness ==
    /\ asked.name = "loadFromStorage"
    /\ asked.arg.item = Some(NotJSON)
    /\ ~asked.arg.threw
    /\ answer = Null
    /\ op.via = "controller"
    /\ op.subs # {}
    /\ pc = "idle"
    /\ saved = "threw"
    /\ storage = Some(NotJSON)

\* App has just been mounted again after a controller operation whose
\* syncToStorage ran on the collection asked.of
LoadedAfterSync ==
    /\ asked.name = "loadFromStorage"
    /\ op.name = "mount"
    /\ asked.arg.saved \in {"ok", "threw", "skipped"}

\* C20 as stated: after syncToStorage of a collection, whatever became of
\* the write, the model that NotesModel.loadFromStorage builds holds the
\* notes of that collection, in their order and with their field values.
C20_SaveThenLoadIsIdentity ==
    LoadedAfterSync => FieldsOfAll(notes) = FieldsOfAll(asked.of)

\* C20, amended: after a syncToStorage that wrote the collection (there is a
\* sessionStorage and setItem did not raise), the model that
\* NotesModel.loadFromStorage builds, when getItem does not raise, holds the
\* notes of that collection, in their order and with their field values;
\* the empty collection comes back empty, not as the default notes.
C20_StoredThenLoadedIsIdentity ==
    (LoadedAfterSync /\ asked.arg.saved = "ok" /\ ~asked.arg.threw) =>
        /\ FieldsOfAll(notes) = FieldsOfAll(asked.of)
        /\ answer # Null
        /\ asked.of = <<>> => notes = <<>>

\* C20 happens: the two default notes were deleted, the empty collection
\* was written, and the model built from the storage is empty.
C20_Witness ==
    /\ LoadedAfterSync
    /\ asked.arg.saved = "ok"
    /\ ~asked.arg.threw
    /\ asked.arg.item = Some([notes |-> <<>>])
    /\ asked.of = <<>>
    /\ notes = <<>>

\* C21: every note of the collection has createdAt <= updatedAt, whatever
\* addNote, updateNote and togglePin calls have run, Date.now() never going
\* back.
C21_CreatedNotAfterUpdated ==
    \A i \in DOMAIN notes : notes[i].createdAt <= notes[i].updatedAt

\* a stands at or before b under the criterion
InOrder(sortOption, a, b) ==
    CASE sortOption = "date-desc" -> a.updatedAt >= b.updatedAt
      [] sortOption = "date-asc" -> a.updatedAt <= b.updatedAt
      [] sortOption = "title-asc" -> localeCompare(a.title, b.title) <= 0
      [] sortOption = "title-desc" -> localeCompare(a.title, b.title) >= 0

\* a and b compare equal under the criterion
EqualUnder(sortOption, a, b) ==
    IF sortOption \in {"date-desc", "date-asc"}
    THEN a.updatedAt = b.updatedAt
    ELSE localeCompare(a.title, b.title) = 0

\* where the Note object n stands in arr
IndexOf(arr, n) == CHOOSE k \in DOMAIN arr : arr[k].ref = n.ref

\* C22: in the result of sortNotes, two notes of the same group (both pinned
\* or both unpinned) stand in the order of the criterion, and when they
\* compare equal under it, in the order they had in the input.
C22_GroupsSortedAndStable ==
    sortBy \in SortOptions =>
        \A i, j \in DOMAIN sortOut :
            (i < j /\ sortOut[i].isPinned = sortOut[j].isPinned) =>
                /\ InOrder(sortBy, sortOut[i], sortOut[j])
                /\ EqualUnder(sortBy, sortOut[i], sortOut[j]) =>
                       IndexOf(sortIn, sortOut[i]) < IndexOf(sortIn, sortOut[j])

\* C22 happens: of three pinned notes the first and the third were updated
\* at the same time, before the second; sorted by date descending the second
\* has moved to the front, and the first still stands before the third.
C22_Witness ==
    /\ sortBy = "date-desc"
    /\ Len(sortIn) = 3
    /\ \A i \in 1..3 : sortIn[i].isPinned
    /\ sortIn[1].updatedAt = 1 /\ sortIn[2].updatedAt = 2 /\ sortIn[3].updatedAt = 1
    /\ sortOut = <<sortIn[2], sortIn[1], sortIn[3]>>

\* C23: updateNote and togglePin of an existing id keep the length of the
\* collection and its set of ids and leave every other note as it was;
\* togglePin changes nothing of its note but isPinned and updatedAt; and
\* after a togglePin that unpins, every note stands where it stood.
C23_OnlyTheTargetChanges ==
    (op.name \in {"update", "togglePin"} /\ op.ret # Null) =>
        LET i == findIndex(op.pre, op.id)
        IN  /\ Len(notes) = Len(op.pre)
            /\ IdsOf(notes) = IdsOf(op.pre)
            /\ \A k \in DOMAIN op.pre \ {i} :
                   \E m \in DOMAIN notes : notes[m] = op.pre[k]
            /\ op.name = "update" =>
                   \A k \in DOMAIN op.pre \ {i} : notes[k] = op.pre[k]
            /\ op.name = "togglePin" =>
                   \A f \in DOMAIN op.pre[i] \ {"isPinned", "updatedAt"} :
                       op.ret[1][f] = op.pre[i][f]
            /\ (op.name = "togglePin" /\ op.pre[i].isPinned) =>
                   /\ ~op.ret[1].isPinned
                   /\ \A k \in DOMAIN op.pre : notes[k].ref = op.pre[k].ref

====
